---- MODULE Spec2Model ----
(***************************************************************************)
(* Fat-tree topology construction, random link-failure injection and       *)
(* shortest-path analysis of Task1.py, as a state machine.                 *)
(*                                                                         *)
(* Node identifiers are the tuples behind the formatted names:             *)
(*   "C_{c}" = <<"C", -1, c>>,  "A_{p}_{a}" = <<"A", p, a>>,               *)
(*   "E_{p}_{e}" = <<"E", p, e>>, "H_{h}" = <<"H", -1, h>>.                *)
(* A graph is the networkx adjacency structure: the nodes in insertion     *)
(* order, and for every node its neighbours in insertion order.            *)
(***************************************************************************)
EXTENDS Integers, Sequences, FiniteSets, TLC

\* ---------------------------------------------------------------- bounds
\* a caller of the library functions builds with k in 1 .. MaxK
MaxK == 4
\* and seeds the generator with 0 .. MaxSeed
MaxSeed == 3
\* and injects failures into one graph at most MaxInjections times
MaxInjections == 2
\* an experiment runs with k in {2, 4, .., 2 * MaxKHalf} (and one odd k),
MaxKHalf == 3
\* N_RUNS in 1 .. MaxRuns
MaxRuns == 2
\* and N_SAMPLES in 1 .. MaxSamples
MaxSamples == 2

\* ------------------------------------------------- IEEE-754 double helpers
\* A positive double is its 53-bit significand, held as four limbs of 16
\* bits (most significant first, the first limb holding the top 5 bits), and
\* the number e of bits after the binary point: value = m / 2^e.

BitLen(x) ==
    CHOOSE n \in 0..30 : x < 2^n /\ (n = 0 \/ 2^(n - 1) <= x)

\* carry propagation, least significant limb first; the top limb is open
Norm(w) ==
    LET c4 == w[4] \div 2^16
        c3 == (w[3] + c4) \div 2^16
        c2 == (w[2] + c3) \div 2^16
    IN  <<w[1] + c2, (w[2] + c3) % 2^16, (w[3] + c4) % 2^16, w[4] % 2^16>>

\* num / den rounded to the nearest double, ties to even (0 < num, den = 100)
DoubleDiv(num, den) ==
    LET a  == CHOOSE n \in 0..20 : 16 * den <= num * 2^n /\ num * 2^n < 32 * den
        q1 == (num * 2^a) \div den
        r1 == (num * 2^a) % den
        q2 == (r1 * 2^16) \div den
        r2 == (r1 * 2^16) % den
        q3 == (r2 * 2^16) \div den
        r3 == (r2 * 2^16) % den
        q4 == (r3 * 2^16) \div den
        r4 == (r3 * 2^16) % den
        up == 2 * r4 > den \/ (2 * r4 = den /\ q4 % 2 = 1)
        m  == Norm(<<q1, q2, q3, q4 + IF up THEN 1 ELSE 0>>)
    IN  IF m[1] = 32 THEN [m |-> <<16, 0, 0, 0>>, e |-> 48 + a - 1]
        ELSE [m |-> m, e |-> 48 + a]

\* n * x rounded to the nearest double, ties to even (0 < n < 2^15)
DoubleMulInt(n, x) ==
    LET w    == Norm(<<n * x.m[1], n * x.m[2], n * x.m[3], n * x.m[4]>>)
        d    == BitLen(w[1]) - 5
        low  == w[4] % 2^d
        odd  == IF d = 16 THEN w[3] % 2 = 1 ELSE (w[4] \div 2^d) % 2 = 1
        up   == d > 0 /\ (2 * low > 2^d \/ (2 * low = 2^d /\ odd))
    IN  [m |-> Norm(<<w[1], w[2], w[3], w[4] - low + IF up THEN 2^d ELSE 0>>),
         e |-> x.e]

\* math.ceil of a positive double below 2^30
DoubleCeil(x) ==
    LET a == x.e - 48
    IN  (x.m[1] \div 2^a)
        + IF x.m[1] % 2^a # 0 \/ x.m[2] # 0 \/ x.m[3] # 0 \/ x.m[4] # 0
          THEN 1 ELSE 0

\* math.ceil(total_edges * (failure_rate_percent / 100.0)), rate > 0
num_to_fail(total_edges, failure_rate_percent) ==
    IF total_edges = 0 THEN 0
    ELSE DoubleCeil(DoubleMulInt(total_edges, DoubleDiv(failure_rate_percent, 100)))

\* the same count in exact arithmetic: ceil(total * rate / 100)
ExactCeil(total, rate) ==
    (total * rate + 99) \div 100

\* ------------------------------------------------------------ loops
\* for i in range(lo, hi + 1): s = LoopBody(loop, ctx, s, i), evaluated by
\* halves so that the evaluation depth stays logarithmic in the trip count.
RECURSIVE ForLoop(_, _, _, _, _)

\* ------------------------------------------------------------ node names
\* f"C_{c_idx}", f"A_{pod_id}_{a_idx}", f"E_{pod_id}_{e_idx}", f"H_{idx}"
\* a naming slip: two core switches share a name
C_halved(c_idx) == <<"C", -1, c_idx \div 2>>
C_(c_idx) == <<"C", -1, c_idx>>
A_(pod_id, a_idx) == <<"A", pod_id, a_idx>>
E_(pod_id, e_idx) == <<"E", pod_id, e_idx>>
H_(host_idx) == <<"H", -1, host_idx>>

\* ------------------------------------------------------ networkx.Graph
\* nx.Graph(): no nodes, no links, no graph attributes
EmptyGraph ==
    [node |-> <<>>, attr |-> <<>>, adj |-> <<>>, graph |-> <<>>]

\* G.add_node(n, **attrs)
add_node(G, n, attrs) ==
    IF n \in DOMAIN G.adj
    THEN [G EXCEPT !.attr[n] = attrs @@ @]
    ELSE [G EXCEPT !.node = Append(@, n),
                   !.attr = @ @@ (n :> attrs),
                   !.adj  = @ @@ (n :> <<>>)]

\* G.has_edge(u, v)
has_edge(G, u, v) ==
    /\ u \in DOMAIN G.adj
    /\ \E i \in 1..Len(G.adj[u]) : G.adj[u][i].nbr = v

\* G.add_edge(u, v, layer=...), both end points being nodes already
add_edge(G, u, v, layer) ==
    IF has_edge(G, u, v)
    THEN [G EXCEPT
            !.adj[u] = [i \in 1..Len(@) |->
                          IF @[i].nbr = v THEN [nbr |-> v, layer |-> layer] ELSE @[i]],
            !.adj[v] = [i \in 1..Len(@) |->
                          IF @[i].nbr = u THEN [nbr |-> u, layer |-> layer] ELSE @[i]]]
    ELSE [G EXCEPT !.adj[u] = Append(@, [nbr |-> v, layer |-> layer]),
                   !.adj[v] = Append(@, [nbr |-> u, layer |-> layer])]

\* G.remove_edge(u, v), the link being present
remove_edge(G, u, v) ==
    [G EXCEPT !.adj[u] = SelectSeq(@, LAMBDA x : x.nbr # v),
              !.adj[v] = SelectSeq(@, LAMBDA x : x.nbr # u)]

\* list(G.edges()): every node in insertion order, every neighbour of it in
\* insertion order that was not itself listed as a node before
edges(G) ==
    ForLoop("edges", G, [out |-> <<>>, seen |-> {}], 1, Len(G.node)).out

\* body of the loop of G.edges() over the nodes
edges_of_node(G, s, i) ==
    LET n    == G.node[i]
        nbrs == SelectSeq(G.adj[n], LAMBDA x : x.nbr \notin s.seen)
    IN  [out  |-> s.out \o [j \in 1..Len(nbrs) |-> <<n, nbrs[j].nbr>>],
         seen |-> s.seen \cup {n}]

\* ------------------------------------------------------ TopologyBuilder
\* a raised exception, in place of a returned value
ValueError == [raise |-> "ValueError"]
SysExit == [raise |-> "SystemExit"]
Raised(x) == "raise" \in DOMAIN x

calculate_fat_tree_params(k) ==
    IF k % 2 # 0 \/ k < 2 THEN ValueError
    ELSE LET k_half == k \div 2
         IN  [k |-> k, k_half |-> k_half, num_pods |-> k,
              num_core_switches |-> k_half * k_half,
              total_hosts |-> (k * k * k) \div 4]

\* for c_idx in range(num_core_switches)
create_core(params, B, c_idx) ==
    LET node_id == C_(c_idx)
    IN  [B EXCEPT !.G = add_node(@, node_id, [type |-> "core", pod |-> -1]),
                  !.core_switches = Append(@, node_id)]

\* for a_idx in range(k_half)
create_agg(ctx, B, a_idx) ==
    LET node_id == A_(ctx.pod_id, a_idx)
    IN  [B EXCEPT !.G = add_node(@, node_id, [type |-> "agg", pod |-> ctx.pod_id]),
                  !.pod_switches_data[ctx.pod_id].agg = Append(@, node_id)]

\* a wiring slip: hosts hang off the pod's first aggregation switch
host_anchor_agg(ctx, B) == B.pod_switches_data[ctx.pod_id].agg[1]
\* a wiring slip: every second host hangs off an aggregation switch
host_anchor_mixed(ctx, B) ==
    IF B.current_host_idx % 2 = 1 THEN B.pod_switches_data[ctx.pod_id].agg[1]
    ELSE ctx.edge_node_id
\* the switch a new host is wired to
host_anchor(ctx, B) == ctx.edge_node_id

\* for h_idx in range(k_half)
create_host(ctx, B, h_idx) ==
    LET host_node_id == H_(B.current_host_idx)
        anchor       == host_anchor(ctx, B)
        G1 == add_node(B.G, host_node_id,
                       [type |-> "host", pod |-> ctx.pod_id, edge_anchor |-> anchor])
    IN  [B EXCEPT !.G = add_edge(G1, anchor, host_node_id, "edge_host"),
                  !.pod_switches_data[ctx.pod_id].host_to_edge =
                       @ @@ (host_node_id :> anchor),
                  !.current_host_idx = @ + 1]

\* for e_idx in range(k_half)
create_edge(ctx, B, e_idx) ==
    LET edge_node_id == E_(ctx.pod_id, e_idx)
        B1 == [B EXCEPT
                 !.G = add_node(@, edge_node_id, [type |-> "edge", pod |-> ctx.pod_id]),
                 !.pod_switches_data[ctx.pod_id].edge = Append(@, edge_node_id)]
    IN  ForLoop("create_host",
                [params |-> ctx.params, pod_id |-> ctx.pod_id,
                 edge_node_id |-> edge_node_id],
                B1, 0, ctx.params.k_half - 1)

\* for pod_id in range(num_pods), node creation
create_pod(params, B, pod_id) ==
    LET ctx == [params |-> params, pod_id |-> pod_id]
        B0  == [B EXCEPT !.pod_switches_data =
                  @ @@ (pod_id :> [agg |-> <<>>, edge |-> <<>>, host_to_edge |-> <<>>])]
        B1  == ForLoop("create_agg", ctx, B0, 0, params.k_half - 1)
    IN  ForLoop("create_edge", ctx, B1, 0, params.k_half - 1)

\* for edge_node in edge_switches
link_agg_edge(ctx, B, j) ==
    [B EXCEPT !.G = add_edge(@, ctx.agg_node, ctx.edge_switches[j], "agg_edge")]

\* for agg_node in agg_switches
link_agg(ctx, B, i) ==
    ForLoop("link_agg_edge",
            [agg_node |-> ctx.agg_switches[i], edge_switches |-> ctx.edge_switches],
            B, 1, Len(ctx.edge_switches))

\* a striping slip: the blocks of neighbouring switches overlap
stripe_core_idx_overlap(agg_idx, k_half, core_offset) == agg_idx + core_offset
\* core_idx = strip_start_index + core_offset
stripe_core_idx(agg_idx, k_half, core_offset) ==
    LET strip_start_index == agg_idx * k_half
    IN  strip_start_index + core_offset

\* for core_offset in range(k_half)
link_core(ctx, B, core_offset) ==
    LET core_idx  == stripe_core_idx(ctx.agg_idx, ctx.k_half, core_offset)
        core_node == B.core_switches[core_idx + 1]
    IN  [B EXCEPT !.G = add_edge(@, ctx.agg_node, core_node, "agg_core")]

\* for agg_idx, agg_node in enumerate(agg_switches)
stripe_agg(ctx, B, agg_idx) ==
    ForLoop("link_core",
            [agg_idx |-> agg_idx, agg_node |-> ctx.agg_switches[agg_idx + 1],
             k_half |-> ctx.params.k_half],
            B, 0, ctx.params.k_half - 1)

\* for pod_id in range(num_pods), link creation
wire_pod(params, B, pod_id) ==
    LET ctx == [params |-> params,
                agg_switches  |-> B.pod_switches_data[pod_id].agg,
                edge_switches |-> B.pod_switches_data[pod_id].edge]
        B1  == ForLoop("link_agg", ctx, B, 1, Len(ctx.agg_switches))
    IN  ForLoop("stripe_agg", ctx, B1, 0, Len(ctx.agg_switches) - 1)

build_fat_tree(k) ==
    LET params == calculate_fat_tree_params(k)
    IN  IF Raised(params) THEN SysExit
        ELSE LET B0 == [G |-> EmptyGraph, core_switches |-> <<>>,
                        pod_switches_data |-> <<>>, current_host_idx |-> 0]
                 B1 == ForLoop("create_core", params, B0, 0, params.num_core_switches - 1)
                 B2 == ForLoop("create_pod", params, B1, 0, params.num_pods - 1)
                 B3 == ForLoop("wire_pod", params, B2, 0, params.num_pods - 1)
             IN  [B3.G EXCEPT !.graph = [params   |-> params,
                                         pod_data |-> B3.pod_switches_data]]

\* ------------------------------------------------------ random (stdlib)
\* The generator behind random.seed / random.sample is kept abstract: a
\* linear congruential generator over 16 bits stands for the Mersenne
\* Twister.  What the program relies on is kept: the state after seed(a) is a
\* function of a alone, every draw advances the state, and sample(population,
\* k) is a function of the state, the population list and k.
RngModulus == 65536
RngMultiplier == 25173
RngIncrement == 13849
SeedScramble == 40503

\* random.seed(a)
random_seed(a) == (a * SeedScramble + RngIncrement) % RngModulus

rng_next(st) == (st * RngMultiplier + RngIncrement) % RngModulus

\* the value in 0 .. n-1 drawn in state st (st being the advanced state)
randbelow(st, n) == (st * n) \div RngModulus

\* one selection of random.sample: result[i] = pool[j]; pool[j] = pool[n-i-1]
sample_step(n, s, i) ==
    LET st == rng_next(s.rng)
        j  == randbelow(st, n - i) + 1
    IN  [rng    |-> st,
         pool   |-> [s.pool EXCEPT ![j] = s.pool[n - i]],
         result |-> Append(s.result, s.pool[j])]

\* random.sample(population, k) in generator state rng: the selected list and
\* the state left behind, or ValueError when k exceeds the population
random_sample(population, k, rng) ==
    LET n == Len(population)
    IN  IF k < 0 \/ k > n THEN ValueError
        ELSE LET s == ForLoop("sample", n,
                              [rng |-> rng, pool |-> population, result |-> <<>>],
                              0, k - 1)
             IN  [result |-> s.result, rng |-> s.rng]

\* ------------------------------------------------------ FailureInjector
\* for u, v in edges_to_remove: if G.has_edge(u, v): G.remove_edge(u, v)
remove_step(edges_to_remove, G, i) ==
    LET u == edges_to_remove[i][1]
        v == edges_to_remove[i][2]
    IN  IF has_edge(G, u, v) THEN remove_edge(G, u, v) ELSE G

\* model_link_failures(G, failure_rate_percent) with the global generator in
\* state rng: the graph as mutated, the returned list, the generator state;
\* or the exception raised by random.sample
model_link_failures(G, failure_rate_percent, rng) ==
    IF failure_rate_percent <= 0
    THEN [G |-> G, ret |-> <<>>, rng |-> rng]
    ELSE LET all_edges   == edges(G)
             total_edges == Len(all_edges)
             n           == num_to_fail(total_edges, failure_rate_percent)
             smp         == random_sample(all_edges, n, rng)
         IN  IF Raised(smp) THEN smp
             ELSE [G   |-> ForLoop("remove", smp.result, G, 1, Len(smp.result)),
                   ret |-> smp.result,
                   rng |-> smp.rng]

\* --------------------------------------------------------- PathAnalyzer
\* nx.NetworkXNoPath, in place of a hop count
NetworkXNoPath == -1

Neighbors(G, S) ==
    UNION {{G.adj[n][i].nbr : i \in 1..Len(G.adj[n])} : n \in S}

\* breadth-first search by levels from the source
RECURSIVE bfs(_, _, _, _, _)
bfs(G, frontier, visited, target, d) ==
    IF target \in frontier THEN d
    ELSE LET next == Neighbors(G, frontier) \ visited
         IN  IF next = {} THEN NetworkXNoPath
             ELSE bfs(G, next, visited \cup next, target, d + 1)

\* nx.shortest_path_length(G, source=source, target=target)
shortest_path_length(G, source, target) ==
    bfs(G, {source}, {source}, target, 0)

\* a float result, held exactly as a reduced fraction
RECURSIVE Gcd(_, _)
Gcd(a, b) == IF b = 0 THEN a ELSE Gcd(b, a % b)

Frac(n, d) ==
    LET g == Gcd(n, d) IN [num |-> n \div g, den |-> d \div g]

FracAdd(x, y) == Frac(x.num * y.den + y.num * x.den, x.den * y.den)

FracDivInt(x, n) == Frac(x.num, x.den * n)

\* a slip: a pair without a path is counted as connected, with length 0
path_step_counted(ctx, s, i) ==
    LET length == shortest_path_length(ctx.G, ctx.host_pairs[i][1], ctx.host_pairs[i][2])
    IN  [total_path_length     |-> s.total_path_length
                                   + IF length = NetworkXNoPath THEN 0 ELSE length,
         connected_pairs_count |-> s.connected_pairs_count + 1]
\* for source, target in host_pairs: try ... except nx.NetworkXNoPath: pass
path_step(ctx, s, i) ==
    LET length == shortest_path_length(ctx.G, ctx.host_pairs[i][1], ctx.host_pairs[i][2])
    IN  IF length = NetworkXNoPath THEN s
        ELSE [total_path_length     |-> s.total_path_length + length,
              connected_pairs_count |-> s.connected_pairs_count + 1]

\* calculate_avg_path_length(G, host_pairs): (avg_length, reachability)
calculate_avg_path_length(G, host_pairs) ==
    LET num_pairs_checked == Len(host_pairs)
        s == ForLoop("pairs", [G |-> G, host_pairs |-> host_pairs],
                     [total_path_length |-> 0, connected_pairs_count |-> 0],
                     1, num_pairs_checked)
    IN  IF num_pairs_checked = 0 THEN <<Frac(0, 1), Frac(0, 1)>>
        ELSE IF s.connected_pairs_count = 0 THEN <<Frac(0, 1), Frac(0, 1)>>
        ELSE <<Frac(s.total_path_length, s.connected_pairs_count),
               Frac(s.connected_pairs_count * 100, num_pairs_checked)>>

\* ------------------------------------------------------------ loop bodies
LoopBody(loop, ctx, s, i) ==
    CASE loop = "edges"         -> edges_of_node(ctx, s, i)
      [] loop = "create_core"   -> create_core(ctx, s, i)
      [] loop = "create_pod"    -> create_pod(ctx, s, i)
      [] loop = "create_agg"    -> create_agg(ctx, s, i)
      [] loop = "create_edge"   -> create_edge(ctx, s, i)
      [] loop = "create_host"   -> create_host(ctx, s, i)
      [] loop = "wire_pod"      -> wire_pod(ctx, s, i)
      [] loop = "link_agg"      -> link_agg(ctx, s, i)
      [] loop = "link_agg_edge" -> link_agg_edge(ctx, s, i)
      [] loop = "stripe_agg"    -> stripe_agg(ctx, s, i)
      [] loop = "link_core"     -> link_core(ctx, s, i)
      [] loop = "sample"        -> sample_step(ctx, s, i)
      [] loop = "remove"        -> remove_step(ctx, s, i)
      [] loop = "pairs"         -> path_step(ctx, s, i)

ForLoop(loop, ctx, s, lo, hi) ==
    IF lo > hi THEN s
    ELSE IF lo = hi THEN LoopBody(loop, ctx, s, lo)
    ELSE LET mid  == (lo + hi) \div 2
             left == ForLoop(loop, ctx, s, lo, mid)
         IN  IF DOMAIN left # {} THEN ForLoop(loop, ctx, left, mid + 1, hi) ELSE left

\* ------------------------------------------------ ExperimentOrchestrator
\* [f"H_{i}" for i in range(total_hosts)]
all_hosts_of(total_hosts) ==
    [i \in 1..total_hosts |-> H_(i - 1)]

\* a slip: the filter is dropped
pair_kept_all(i, j) == TRUE
\* does the comprehension keep the pair of positions (i, j)?
pair_kept(i, j) == i # j

\* [(source, target) for i, source in enumerate(all_hosts)
\*                   for j, target in enumerate(all_hosts) if i != j]
all_possible_pairs(all_hosts) ==
    LET n   == Len(all_hosts)
        idx == SelectSeq([x \in 1..n * n |-> <<(x - 1) \div n, (x - 1) % n>>],
                         LAMBDA ij : pair_kept(ij[1], ij[2]))
    IN  [x \in 1..Len(idx) |-> <<all_hosts[idx[x][1] + 1], all_hosts[idx[x][2] + 1]>>]

\* the largest host count that is checked exhaustively
ExhaustiveHosts == 16

\* the seed of the sample-set construction
SampleSeed == 1000

\* lines 148-161: the fixed sample set and the generator state left behind
fixed_sample(all_hosts, n_samples) ==
    LET num_hosts == Len(all_hosts)
        pairs     == all_possible_pairs(all_hosts)
        rng0      == random_seed(SampleSeed)
    IN  IF num_hosts <= ExhaustiveHosts
        THEN [result |-> pairs, rng |-> rng0]
        ELSE LET effective_samples == IF n_samples < Len(pairs) THEN n_samples
                                      ELSE Len(pairs)
             IN  random_sample(pairs, effective_samples, rng0)

\* a slip: the graph is built once and reused by later trials
trial_graph_reused(kk, Gold) ==
    IF Len(Gold.node) = 0 THEN build_fat_tree(kk) ELSE Gold
\* line 170: the graph of a trial
trial_graph(kk, Gold) == build_fat_tree(kk)

\* a slip: the generator is not reseeded for the trial
trial_rng_stale(rng_old, run_no) == rng_old
\* line 173: the generator state of a trial
trial_rng(rng_old, run_no) == random_seed(run_no)

\* ---------------------------------------------------------------- state
VARIABLES
    pc,               \* position of the caller / of run_experiment_cycle
    k,                \* the topology parameter
    G,                \* the graph at hand
    rng,              \* state of the global random generator
    rate,             \* failure_rate_percent of the last injection
    injections,       \* model_link_failures calls on the graph at hand
    edges_to_remove,  \* what model_link_failures returned last
    host_pairs,       \* the list last passed to calculate_avg_path_length
    ret,              \* what calculate_avg_path_length returned last
    fail_rates, N_RUNS, N_SAMPLES,      \* inputs of run_experiment_cycle
    fixed_host_pairs, rate_i, run,      \* its locals
    avg_length_sum, reachability_sum, results

vars == <<pc, k, G, rng, rate, injections, edges_to_remove, host_pairs, ret,
          fail_rates, N_RUNS, N_SAMPLES, fixed_host_pairs, rate_i, run,
          avg_length_sum, reachability_sum, results>>

expVars == <<fail_rates, N_RUNS, N_SAMPLES, fixed_host_pairs, rate_i, run,
             avg_length_sum, reachability_sum, results>>

Zero == Frac(0, 1)
NoRet == <<Zero, Zero>>
NoResults == [fail_rate |-> <<>>, avg_path |-> <<>>, reachability |-> <<>>]

\* the failure rates handed to model_link_failures by a caller
CallRates == {0, 28, 47, 100, 150}

\* the failure-rate lists handed to run_experiment_cycle
FailRateLists == {<<0>>, <<5, 50>>, <<50, 5>>, <<50, 50>>, <<150>>}

Seeds == {random_seed(sd) : sd \in 0..MaxSeed}

\* the hosts of G, in creation order
HostsOf(GG) == SelectSeq(GG.node, LAMBDA n : GG.attr[n].type = "host")

\* the host-pair lists handed to calculate_avg_path_length by a caller: the
\* empty list, single pairs, a list with a repeated pair, and all pairs
PairLists(GG) ==
    LET hs   == HostsOf(GG)
        n    == Len(hs)
        reps == {hs[1], hs[2], hs[(n \div 4) + 1], hs[n]}
        one  == {<<<<a, b>>>> : a \in {hs[1]}, b \in reps \ {hs[1]}}
    IN  {<<>>, all_possible_pairs(hs), <<<<hs[n], hs[1]>>, <<hs[1], hs[n]>>, <<hs[n], hs[1]>>>>}
        \cup one

\* -------------------------------------------- the functions, as called
InitCommon ==
    /\ G = EmptyGraph
    /\ rng \in Seeds
    /\ rate = 0
    /\ injections = 0
    /\ edges_to_remove = <<>>
    /\ host_pairs = <<>>
    /\ ret = NoRet
    /\ fixed_host_pairs = <<>>
    /\ rate_i = 0
    /\ run = 0
    /\ avg_length_sum = Zero
    /\ reachability_sum = Zero
    /\ results = NoResults

Init ==
    /\ pc = "ready"
    /\ k = 0
    /\ fail_rates = <<>>
    /\ N_RUNS = 0
    /\ N_SAMPLES = 0
    /\ InitCommon

\* graph = build_fat_tree(K)
Build ==
    /\ pc = "ready"
    /\ \E kk \in 1..MaxK :
         LET g == build_fat_tree(kk)
         IN  /\ k' = kk
             /\ IF Raised(g)
                THEN pc' = "exit" /\ G' = G
                ELSE pc' = "built" /\ G' = g
    /\ injections' = 0
    /\ UNCHANGED <<rng, rate, edges_to_remove, host_pairs, ret, expVars>>

\* random.seed(seed_value)
Seed ==
    /\ pc = "built"
    /\ \E sd \in 0..MaxSeed : rng' = random_seed(sd)
    /\ pc' = "seeded"
    /\ UNCHANGED <<k, G, rate, injections, edges_to_remove, host_pairs, ret, expVars>>

\* failed = model_link_failures(graph, rate)
Inject ==
    /\ pc \in {"seeded", "injected"}
    /\ injections < MaxInjections
    /\ \E r \in CallRates :
         LET out == model_link_failures(G, r, rng)
         IN  /\ rate' = r
             /\ IF Raised(out)
                THEN pc' = "raised_sample" /\ UNCHANGED <<G, rng, edges_to_remove>>
                ELSE /\ pc' = "injected"
                     /\ G' = out.G
                     /\ rng' = out.rng
                     /\ edges_to_remove' = out.ret
    /\ injections' = injections + 1
    /\ UNCHANGED <<k, host_pairs, ret, expVars>>

\* length, reachability = calculate_avg_path_length(graph, pairs)
Analyze ==
    /\ pc \in {"built", "injected"}
    /\ \E pairs \in PairLists(G) :
         /\ host_pairs' = pairs
         /\ ret' = calculate_avg_path_length(G, pairs)
    /\ pc' = "analyzed"
    /\ UNCHANGED <<k, G, rng, rate, injections, edges_to_remove, expVars>>

Next == Build \/ Seed \/ Inject \/ Analyze

Spec == Init /\ [][Next]_vars

\* ------------------------------------------------ run_experiment_cycle
InitExp ==
    /\ pc = "start"
    /\ k \in {2 * h : h \in 1..MaxKHalf} \cup {3}
    /\ fail_rates \in FailRateLists
    /\ N_RUNS \in 1..MaxRuns
    /\ N_SAMPLES \in 1..MaxSamples
    /\ InitCommon

\* lines 143-161: the host list and the fixed sample set
SampleSet ==
    /\ pc = "start"
    /\ LET params == calculate_fat_tree_params(k)
       IN  IF Raised(params)
           THEN pc' = "raised_params" /\ UNCHANGED <<rng, fixed_host_pairs>>
           ELSE LET smp == fixed_sample(all_hosts_of(params.total_hosts), N_SAMPLES)
                IN  /\ pc' = "rate_loop"
                    /\ rng' = smp.rng
                    /\ fixed_host_pairs' = smp.result
    /\ results' = NoResults
    /\ UNCHANGED <<k, G, rate, injections, edges_to_remove, host_pairs, ret,
                   fail_rates, N_RUNS, N_SAMPLES, rate_i, run,
                   avg_length_sum, reachability_sum>>

\* lines 164-166: for rate in fail_rates
NextRate ==
    /\ pc = "rate_loop"
    /\ IF rate_i < Len(fail_rates)
       THEN /\ rate' = fail_rates[rate_i + 1]
            /\ avg_length_sum' = Zero
            /\ reachability_sum' = Zero
            /\ run' = 0
            /\ pc' = "trial"
       ELSE /\ pc' = "done"
            /\ UNCHANGED <<rate, avg_length_sum, reachability_sum, run>>
    /\ UNCHANGED <<k, G, rng, injections, edges_to_remove, host_pairs, ret,
                   fail_rates, N_RUNS, N_SAMPLES, fixed_host_pairs, rate_i, results>>

\* lines 168-170: for run in range(N_RUNS): G = build_fat_tree(k)
TrialBuild ==
    /\ pc = "trial"
    /\ run < N_RUNS
    /\ G' = trial_graph(k, G)
    /\ injections' = 0
    /\ pc' = "trial_built"
    /\ UNCHANGED <<k, rng, rate, edges_to_remove, host_pairs, ret, expVars>>

\* line 173: random.seed(run)
TrialSeed ==
    /\ pc = "trial_built"
    /\ rng' = trial_rng(rng, run)
    /\ pc' = "trial_seeded"
    /\ UNCHANGED <<k, G, rate, injections, edges_to_remove, host_pairs, ret, expVars>>

\* line 174: model_link_failures(G, rate)
TrialInject ==
    /\ pc = "trial_seeded"
    /\ LET out == model_link_failures(G, rate, rng)
       IN  IF Raised(out)
           THEN pc' = "raised_sample" /\ UNCHANGED <<G, rng, edges_to_remove>>
           ELSE /\ pc' = "trial_injected"
                /\ G' = out.G
                /\ rng' = out.rng
                /\ edges_to_remove' = out.ret
    /\ injections' = injections + 1
    /\ UNCHANGED <<k, rate, host_pairs, ret, expVars>>

\* lines 177-180: analysis against the fixed pairs, and the running sums
TrialAnalyze ==
    /\ pc = "trial_injected"
    /\ LET out == calculate_avg_path_length(G, fixed_host_pairs)
       IN  /\ host_pairs' = fixed_host_pairs
           /\ ret' = out
           /\ avg_length_sum' = FracAdd(avg_length_sum, out[1])
           /\ reachability_sum' = FracAdd(reachability_sum, out[2])
    /\ run' = run + 1
    /\ pc' = "trial"
    /\ UNCHANGED <<k, G, rng, rate, injections, edges_to_remove,
                   fail_rates, N_RUNS, N_SAMPLES, fixed_host_pairs, rate_i, results>>

\* lines 183-188: the means of the rate, appended to the results
StoreRate ==
    /\ pc = "trial"
    /\ run >= N_RUNS
    /\ results' = [fail_rate    |-> Append(results.fail_rate, rate),
                   avg_path     |-> Append(results.avg_path,
                                           FracDivInt(avg_length_sum, N_RUNS)),
                   reachability |-> Append(results.reachability,
                                           FracDivInt(reachability_sum, N_RUNS))]
    /\ rate_i' = rate_i + 1
    /\ pc' = "rate_loop"
    /\ UNCHANGED <<k, G, rng, rate, injections, edges_to_remove, host_pairs, ret,
                   fail_rates, N_RUNS, N_SAMPLES, fixed_host_pairs, run,
                   avg_length_sum, reachability_sum>>

NextExp ==
    \/ SampleSet \/ NextRate \/ TrialBuild \/ TrialSeed
    \/ TrialInject \/ TrialAnalyze \/ StoreRate

SpecExp == InitExp /\ [][NextExp]_vars

\* ====================================================== properties
HostSet(GG) == {n \in DOMAIN GG.attr : GG.attr[n].type = "host"}
Count(GG, t) == Cardinality({n \in DOMAIN GG.attr : GG.attr[n].type = t})
NbrsOfType(GG, n, t) == {m \in Neighbors(GG, {n}) : GG.attr[m].type = t}
Dist(a, b) == shortest_path_length(G, a, b)
SetOf(seq) == {seq[i] : i \in 1..Len(seq)}
\* the links of a graph as unordered pairs
LinkSet(GG) ==
    UNION {{{n, GG.adj[n][i].nbr} : i \in 1..Len(GG.adj[n])} : n \in DOMAIN GG.adj}
Fresh == pc \in {"trial_built", "trial_seeded"}

\* the properties of build_fat_tree(4) with the inter-pod distance d
FatTree4(d) ==
    /\ Count(G, "host") = 16
    /\ Count(G, "edge") = 8
    /\ Count(G, "agg") = 8
    /\ Count(G, "core") = 4
    /\ \A a \in HostSet(G) : \A b \in HostSet(G) \ {a} :
         /\ Dist(a, b) # NetworkXNoPath
         /\ G.attr[a].pod # G.attr[b].pod => Dist(a, b) = d
         /\ G.attr[a].edge_anchor = G.attr[b].edge_anchor => Dist(a, b) = 2

\* C1 as stated: build_fat_tree(4) has 16 hosts, 8 edge, 8 aggregation and 4
\* core switches, every host reaches every other, hosts in different pods
\* are exactly 4 hops apart and hosts sharing an edge switch exactly 2.
C1_FourHops ==
    (pc = "built" /\ k = 4) => FatTree4(4)

\* C1 as amended: the same, with hosts in different pods exactly 6 hops
\* apart (host - edge - aggregation - core - aggregation - edge - host).
C1_SixHops ==
    (pc = "built" /\ k = 4) => FatTree4(6)

C1_Witness ==
    /\ pc = "built" /\ k = 4
    /\ Dist(H_(0), H_(15)) = 6
    /\ Dist(H_(0), H_(1)) = 2

\* C2: in a freshly built graph, for every pod the i-th aggregation switch
\* is linked to exactly the core switches i*k/2 .. (i+1)*k/2 - 1, and every
\* core switch has exactly k aggregation neighbours, one in each pod.
C2_Striping ==
    Fresh =>
      LET k_half == k \div 2
          pod    == G.graph.pod_data
      IN  /\ \A p \in 0..k - 1 : \A i \in 0..k_half - 1 :
                /\ pod[p].agg[i + 1] = A_(p, i)
                /\ NbrsOfType(G, A_(p, i), "core")
                     = {C_(c) : c \in i * k_half .. (i + 1) * k_half - 1}
                /\ Cardinality(NbrsOfType(G, A_(p, i), "core")) = k_half
          /\ \A c \in 0..k_half * k_half - 1 :
                /\ Neighbors(G, {C_(c)}) = NbrsOfType(G, C_(c), "agg")
                /\ Cardinality(Neighbors(G, {C_(c)})) = k
                /\ \A p \in 0..k - 1 :
                     Cardinality({m \in Neighbors(G, {C_(c)}) : G.attr[m].pod = p}) = 1

C2_Witness ==
    /\ pc = "trial_built" /\ k = 6
    /\ NbrsOfType(G, A_(5, 2), "core") = {C_(6), C_(7), C_(8)}

\* C3: a freshly built graph has exactly k^3/4 hosts, k*(k/2) edge switches,
\* k*(k/2) aggregation switches, (k/2)^2 core switches, and no other node.
C3_NodeCounts ==
    Fresh =>
      /\ Count(G, "host") = (k * k * k) \div 4
      /\ Count(G, "edge") = k * (k \div 2)
      /\ Count(G, "agg") = k * (k \div 2)
      /\ Count(G, "core") = (k \div 2) * (k \div 2)
      /\ Len(G.node) = (k * k * k) \div 4 + 2 * k * (k \div 2) + (k \div 2) * (k \div 2)
      /\ Cardinality(SetOf(G.node)) = Len(G.node)
      /\ SetOf(G.node) = DOMAIN G.attr
      /\ \A n \in DOMAIN G.attr : G.attr[n].type \in {"host", "edge", "agg", "core"}

C3_Witness ==
    pc = "trial_built" /\ k = 6 /\ Count(G, "host") = 54 /\ Count(G, "core") = 9

\* C4: a call of model_link_failures with a rate above 100 completes without
\* a fault and leaves the graph without links.
C4_Clamped ==
    rate > 100 => (pc # "raised_sample" /\ (pc = "injected" => LinkSet(G) = {}))

\* C5: a call of model_link_failures with a rate in (0, 100] returns exactly
\* ceil(totalLinks * rate / 100) pairwise distinct links, each a link before
\* the call and absent after it; the other links and the nodes are kept.
C5_Effect(n) ==
    /\ Len(edges_to_remove') = n
    /\ Cardinality(SetOf(edges_to_remove')) = n
    /\ \A e \in SetOf(edges_to_remove') :
         {e[1], e[2]} \in LinkSet(G) /\ {e[1], e[2]} \notin LinkSet(G')
    /\ LinkSet(G') = LinkSet(G) \ {{e[1], e[2]} : e \in SetOf(edges_to_remove')}
    /\ G'.node = G.node
    /\ DOMAIN G'.adj = DOMAIN G.adj

C5_ExactCount ==
    [][(pc' = "injected" /\ rate' \in 1..100)
         => C5_Effect(ExactCeil(Cardinality(LinkSet(G)), rate'))]_vars

\* the same with the count the double-precision product gives: it is what
\* the code does, and differs from C5 only in the count
C5_FloatCount ==
    [][(pc' = "injected" /\ rate' \in 1..100)
         => C5_Effect(num_to_fail(Cardinality(LinkSet(G)), rate'))]_vars

\* sum of the hop counts of the connected pairs lo .. hi of host_pairs
RECURSIVE HopSum(_, _)
HopSum(lo, hi) ==
    IF lo > hi THEN 0
    ELSE IF lo = hi
         THEN LET d == Dist(host_pairs[lo][1], host_pairs[lo][2])
              IN  IF d = NetworkXNoPath THEN 0 ELSE d
         ELSE HopSum(lo, (lo + hi) \div 2) + HopSum((lo + hi) \div 2 + 1, hi)

Reachable == {i \in 1..Len(host_pairs) :
                 Dist(host_pairs[i][1], host_pairs[i][2]) # NetworkXNoPath}

\* C6: for a non-empty list of host pairs calculate_avg_path_length returns
\* reachability 100 * reachable / checked, within [0, 100], and the mean hop
\* count of the reachable pairs, or 0 when none is reachable.
C6_Analysis ==
    (pc = "analyzed" /\ host_pairs # <<>>) =>
      LET n == Len(host_pairs)
          c == Cardinality(Reachable)
      IN  /\ ret[2] = Frac(100 * c, n)
          /\ 0 <= ret[2].num /\ ret[2].num <= 100 * ret[2].den
          /\ ret[1] = IF c = 0 THEN Zero ELSE Frac(HopSum(1, n), c)

C6_Witness ==
    /\ pc = "analyzed" /\ host_pairs # <<>>
    /\ 0 < Cardinality(Reachable)
    /\ Cardinality(Reachable) < Len(host_pairs)
    /\ ret[1].num > 0

\* C7: the graph handed to model_link_failures in a trial is the intact
\* graph of build_fat_tree(k); no link removed earlier is missing from it.
C7_FreshGraph ==
    Fresh =>
      /\ G = build_fat_tree(k)
      /\ \A e \in SetOf(edges_to_remove) : has_edge(G, e[1], e[2])

C7_Witness ==
    /\ pc = "trial_seeded" /\ rate_i > 0 /\ run > 0
    /\ edges_to_remove # <<>>

\* C8: the links failed in trial t at a rate are a function of (k, rate, t):
\* those drawn from the intact graph by a generator freshly seeded with t.
C8_FailureSet ==
    pc = "trial_injected" =>
      edges_to_remove = model_link_failures(build_fat_tree(k), rate, random_seed(run)).ret

C8_Witness ==
    /\ pc = "trial_injected" /\ rate_i > 0 /\ run > 0
    /\ edges_to_remove # <<>>
    /\ Len(fixed_host_pairs) = N_SAMPLES

\* the sample set as it stands once built
C9_Sample ==
    pc \notin {"start", "raised_params"} =>
      LET hosts == SetOf(all_hosts_of((k * k * k) \div 4))
      IN  /\ \A p \in SetOf(fixed_host_pairs) :
                p[1] # p[2] /\ p[1] \in hosts /\ p[2] \in hosts
          /\ Cardinality(hosts) <= 16 =>
                /\ SetOf(fixed_host_pairs) = {p \in hosts \X hosts : p[1] # p[2]}
                /\ Len(fixed_host_pairs) = Cardinality(hosts) * (Cardinality(hosts) - 1)
          /\ (pc = "trial" /\ run > 0) => host_pairs = fixed_host_pairs

\* C9: the sample set is built once, before any trial; it never changes
\* afterwards and is the list handed to every analysis; it holds no pair
\* (h, h), and with at most 16 hosts it is every ordered pair of distinct hosts.
C9_FixedSample ==
    /\ []C9_Sample
    /\ [][pc # "start" => fixed_host_pairs' = fixed_host_pairs]_vars

C9_Witness ==
    /\ pc = "trial" /\ run > 0 /\ rate_i > 0 /\ k = 4
    /\ host_pairs = fixed_host_pairs
    /\ Len(fixed_host_pairs) = 240

Tier(t) ==
    CASE t = "host" -> 0 [] t = "edge" -> 1 [] t = "agg" -> 2 [] t = "core" -> 3

\* C10: every link joins nodes of adjacent tiers, so any two distinct hosts
\* are an even number (at least 2) of hops apart or not connected, and the
\* returned average path length is 0 or at least 2.
C10_EvenPaths ==
    pc \notin {"ready", "exit"} =>
      /\ \A n \in DOMAIN G.adj : \A m \in Neighbors(G, {n}) :
           Tier(G.attr[n].type) - Tier(G.attr[m].type) \in {-1, 1}
      /\ \A a \in HostSet(G) : \A b \in HostSet(G) \ {a} :
           \/ Dist(a, b) = NetworkXNoPath
           \/ Dist(a, b) >= 2 /\ Dist(a, b) % 2 = 0
      /\ pc = "analyzed" => (ret[1] = Zero \/ ret[1].num >= 2 * ret[1].den)

C10_Witness ==
    /\ pc = "analyzed" /\ injections > 0 /\ edges_to_remove # <<>>
    /\ ret[1].num > 6 * ret[1].den

====
